---- MODULE Spec2Model ----
(***************************************************************************)
(* Handy: the Gemini transcription client (src-tauri/src/gemini_client.rs) *)
(* and the history commands (src-tauri/src/commands/history.rs).           *)
(*                                                                         *)
(* Rust values are modelled as follows.  String: a TLA+ string.            *)
(* Option<T>: a sequence of length 0 (None) or 1 (Some).  Result<T, E>: a  *)
(* record [ok, val].  An f32 sample: a record [nan, v], v an integer       *)
(* number of 1/SampleUnit (so v = SampleUnit stands for 1.0).  A JSON      *)
(* document: a tagged value [t, v], t one of "obj", "arr", "str", "num",   *)
(* "null".                                                                 *)
(***************************************************************************)
EXTENDS Integers, Sequences, FiniteSets, TLC

VARIABLES
    g_pc,           \* position of the transcribe_audio call
    api_key,        \* argument of transcribe_audio
    samples,        \* argument of transcribe_audio
    language_hint,  \* argument of transcribe_audio
    base64_audio,   \* local of transcribe_audio: Option<String>, None before encoding
    prompt,         \* local of transcribe_audio: Option<String>, None before it is built
    model_idx,      \* position of `for model in &models`
    last_error,     \* local of transcribe_audio
    sent,           \* the requests handed to the network, in order
    answers,        \* what the network answered to them, in order
    log,            \* the lines written through log::{debug, info, error}
    g_result,       \* Option<Result<String, String>>: what transcribe_audio returned
    settings,       \* the stored settings object
    h_pc,           \* per command invocation: its position
    h_cmd,          \* per command invocation: the command and its argument
    h_local,        \* per command invocation: `let mut settings`, Option
    h_result,       \* per command invocation: Option<Result<(), String>>
    calls,          \* the calls of write_settings and cleanup_old_entries, in order
    entries,        \* the history entries, oldest first
    files,          \* the audio files on disk
    locked,         \* the audio files whose deletion fails
    now,            \* the clock: the current day
    next_id,        \* the id of the next entry
    s_cmd,          \* the last command run on the store
    s_result        \* Option<Result<(), String>>: what that command returned

gvars == <<g_pc, api_key, samples, language_hint, base64_audio, prompt,
           model_idx, last_error, sent, answers, log, g_result>>
hvars == <<settings, h_pc, h_cmd, h_local, h_result, calls>>
svars == <<entries, files, locked, now, next_id, s_cmd, s_result>>
vars == <<g_pc, api_key, samples, language_hint, base64_audio, prompt,
          model_idx, last_error, sent, answers, log, g_result,
          settings, h_pc, h_cmd, h_local, h_result, calls,
          entries, files, locked, now, next_id, s_cmd, s_result>>

---------------------------------------------------------------------------
(* Rust's Option and Result *)

None == <<>>

Some(x) == <<x>>

Ok(x) == [ok |-> TRUE, val |-> x]

Err(e) == [ok |-> FALSE, val |-> e]

---------------------------------------------------------------------------
(* Bounds of the model *)

\* longest sample vector passed to transcribe_audio
MaxSamples == 2

\* number of invocations of the settings commands, which may overlap
MaxInvocations == 2

\* largest history limit passed to update_history_limit
MaxLimit == 1

---------------------------------------------------------------------------
(* samples_to_wav_bytes *)

\* 1.0f32 in the model's sample unit: samples are multiples of 1/SampleUnit
SampleUnit == 2

Sample(v) == [nan |-> FALSE, v |-> v]

NaN == [nan |-> TRUE, v |-> 0]

I16_MAX == 32767

I16_MIN == -32768

\* integer division truncating toward zero, as a float-to-int cast truncates
TruncDiv(a, b) == IF a >= 0 THEN a \div b ELSE -((-a) \div b)

\* `(sample * i16::MAX as f32) as i16`: the cast truncates, saturates at the
\* bounds of i16 and sends NaN to 0
SampleToI16(sample) ==
    IF sample.nan THEN 0
    ELSE LET scaled == TruncDiv(sample.v * I16_MAX, SampleUnit)
         IN  IF scaled > I16_MAX THEN I16_MAX
             ELSE IF scaled < I16_MIN THEN I16_MIN
             ELSE scaled

\* n as `count` little-endian bytes
RECURSIVE LeBytes(_, _)
LeBytes(n, count) ==
    IF count = 0 THEN <<>> ELSE <<n % 256>> \o LeBytes(n \div 256, count - 1)

\* an i16 as its two little-endian bytes (two's complement)
I16Bytes(v) == LeBytes((v + 65536) % 65536, 2)

RECURSIVE SampleData(_)
SampleData(ss) ==
    IF ss = <<>> THEN <<>>
    ELSE I16Bytes(SampleToI16(Head(ss))) \o SampleData(Tail(ss))

\* the RIFF/WAVE header of WavSpec {channels: 1, sample_rate, bits_per_sample: 16, Int}
WavHeader(sample_rate, data_len) ==
       <<82, 73, 70, 70>> \o LeBytes(36 + data_len, 4)
    \o <<87, 65, 86, 69>>
    \o <<102, 109, 116, 32>> \o LeBytes(16, 4)
    \o LeBytes(1, 2) \o LeBytes(1, 2)
    \o LeBytes(sample_rate, 4) \o LeBytes(sample_rate * 2, 4)
    \o LeBytes(2, 2) \o LeBytes(16, 2)
    \o <<100, 97, 116, 97>> \o LeBytes(data_len, 4)

\* The outcomes of the fallible calls on the WAV writer: "ok", or the call
\* that failed.  write_sample is only called when there is a sample.
WavOutcomes(ss) ==
    {"ok", "create", "finalize"} \cup (IF ss = <<>> THEN {} ELSE {"write"})

samples_to_wav_bytes(ss, sample_rate, outcome) ==
    CASE outcome = "create"   -> Err("Failed to create WAV writer: io error")
      [] outcome = "write"    -> Err("Failed to write sample: io error")
      [] outcome = "finalize" -> Err("Failed to finalize WAV: io error")
      [] OTHER -> LET data == SampleData(ss)
                  IN  Ok(WavHeader(sample_rate, Len(data)) \o data)

---------------------------------------------------------------------------
(* base64::engine::general_purpose::STANDARD *)

Base64Alphabet ==
    "ABCDEFGHIJKLMNOPQRSTUVWXYZabcdefghijklmnopqrstuvwxyz0123456789+/"

Base64Char(i) == SubSeq(Base64Alphabet, i + 1, i + 1)

RECURSIVE Base64Encode(_)
Base64Encode(bytes) ==
    CASE Len(bytes) = 0 -> ""
      [] Len(bytes) = 1 ->
            Base64Char(bytes[1] \div 4) \o Base64Char((bytes[1] % 4) * 16) \o "=="
      [] Len(bytes) = 2 ->
            Base64Char(bytes[1] \div 4)
            \o Base64Char((bytes[1] % 4) * 16 + bytes[2] \div 16)
            \o Base64Char((bytes[2] % 16) * 4) \o "="
      [] OTHER ->
            Base64Char(bytes[1] \div 4)
            \o Base64Char((bytes[1] % 4) * 16 + bytes[2] \div 16)
            \o Base64Char((bytes[2] % 16) * 4 + bytes[3] \div 64)
            \o Base64Char(bytes[3] % 64)
            \o Base64Encode(SubSeq(bytes, 4, Len(bytes)))

---------------------------------------------------------------------------
(* transcribe_audio: the prompt and the ranked models *)

GEMINI_API_BASE == "https://generativelanguage.googleapis.com/v1beta"

\* models with the fallback first
modelsFallbackFirst == <<"gemini-2.0-flash", "gemini-2.5-flash">>

\* models with the primary listed twice
modelsPrimaryTwice == <<"gemini-2.5-flash", "gemini-2.5-flash">>

\* `let models = [...]`: primary first, then the fallback
models == <<"gemini-2.5-flash", "gemini-2.0-flash">>

\* `let prompt = match language_hint {...}`
BuildPrompt(hint) ==
    IF Len(hint) = 1 /\ hint[1] # "auto"
    THEN "Transcribe this audio. The language is " \o hint[1]
         \o ". Return only the transcribed text, nothing else."
    ELSE "Transcribe this audio. Return only the transcribed text, nothing else."

\* the request send_transcription_request posts for `model`
BuildRequest(key, model, audio, text) ==
    [ url |-> GEMINI_API_BASE \o "/models/" \o model \o ":generateContent?key=" \o key,
      model |-> model,
      content_type |-> "application/json",
      parts |-> << [text |-> text],
                   [inline_data |-> [mime_type |-> "audio/wav", data |-> audio]] >> ]

---------------------------------------------------------------------------
(* JSON documents and serde's derived Deserialize for the response types *)

JObj(fields) == [t |-> "obj", v |-> fields]

JArr(items) == [t |-> "arr", v |-> items]

JStr(s) == [t |-> "str", v |-> s]

JNum(n) == [t |-> "num", v |-> n]

JNull == [t |-> "null", v |-> 0]

NoFields == [k \in {} |-> JNull]

\* the value of field k of a JSON object; a missing key reads as null, which is
\* how an Option<T> field deserializes
Field(obj, k) == IF k \in DOMAIN obj.v THEN obj.v[k] ELSE JNull

\* Option<T>: null (or missing) is None, anything else must be a T; r is the
\* document deserialized as a T
DeOption(j, r) ==
    IF j.t = "null" THEN Ok(None)
    ELSE IF r.ok THEN Ok(Some(r.val)) ELSE r

\* Vec<T>: every element must be a T; rs are the elements deserialized as T
CollectVec(rs) ==
    IF \E i \in DOMAIN rs : ~rs[i].ok
    THEN Err("invalid type in sequence")
    ELSE Ok([i \in DOMAIN rs |-> rs[i].val])

DeString(j) ==
    IF j.t = "str" THEN Ok(j.v) ELSE Err("invalid type: expected a string")

DeI32(j) ==
    IF j.t = "num" /\ j.v >= -2147483647 - 1 /\ j.v <= 2147483647
    THEN Ok(j.v) ELSE Err("invalid type: expected i32")

\* struct ResponsePart { text: Option<String> }
DeResponsePart(j) ==
    IF j.t # "obj" THEN Err("invalid type: expected struct ResponsePart")
    ELSE LET text == DeOption(Field(j, "text"), DeString(Field(j, "text")))
         IN  IF text.ok THEN Ok([text |-> text.val]) ELSE text

\* Vec<ResponsePart>
DeParts(j) ==
    IF j.t # "arr" THEN Err("invalid type: expected a sequence")
    ELSE CollectVec([i \in DOMAIN j.v |-> DeResponsePart(j.v[i])])

\* struct CandidateContent { parts: Option<Vec<ResponsePart>> }
DeCandidateContent(j) ==
    IF j.t # "obj" THEN Err("invalid type: expected struct CandidateContent")
    ELSE LET parts == DeOption(Field(j, "parts"), DeParts(Field(j, "parts")))
         IN  IF parts.ok THEN Ok([parts |-> parts.val]) ELSE parts

\* struct Candidate { content: Option<CandidateContent> }
DeCandidate(j) ==
    IF j.t # "obj" THEN Err("invalid type: expected struct Candidate")
    ELSE LET content == DeOption(Field(j, "content"), DeCandidateContent(Field(j, "content")))
         IN  IF content.ok THEN Ok([content |-> content.val]) ELSE content

\* Vec<Candidate>
DeCandidates(j) ==
    IF j.t # "arr" THEN Err("invalid type: expected a sequence")
    ELSE CollectVec([i \in DOMAIN j.v |-> DeCandidate(j.v[i])])

\* struct GeminiError { message: String, code: Option<i32> }: message is required
DeGeminiError(j) ==
    IF j.t # "obj" THEN Err("invalid type: expected struct GeminiError")
    ELSE IF "message" \notin DOMAIN j.v THEN Err("missing field message")
    ELSE LET message == DeString(j.v["message"])
             code == DeOption(Field(j, "code"), DeI32(Field(j, "code")))
         IN  IF ~message.ok THEN message
             ELSE IF ~code.ok THEN code
             ELSE Ok([message |-> message.val, code |-> code.val])

\* struct GeminiResponse { candidates: Option<Vec<Candidate>>, error: Option<GeminiError> }
DeGeminiResponse(j) ==
    IF j.t # "obj" THEN Err("invalid type: expected struct GeminiResponse")
    ELSE LET candidates == DeOption(Field(j, "candidates"), DeCandidates(Field(j, "candidates")))
             error == DeOption(Field(j, "error"), DeGeminiError(Field(j, "error")))
         IN  IF ~candidates.ok THEN candidates
             ELSE IF ~error.ok THEN error
             ELSE Ok([candidates |-> candidates.val, error |-> error.val])

\* serde_json::from_str::<GeminiResponse>: a body is its text and, when the text
\* is JSON, the document it denotes
from_str(body) ==
    IF Len(body.json) = 0 THEN Err("expected value at line 1 column 1")
    ELSE DeGeminiResponse(body.json[1])

---------------------------------------------------------------------------
(* send_transcription_request: from the answer of the network to its result *)

Digit(d) == SubSeq("0123456789", d + 1, d + 1)

\* the decimal text of an integer, as Display and Debug print it
RECURSIVE NatToStr(_)
NatToStr(n) == IF n < 10 THEN Digit(n) ELSE NatToStr(n \div 10) \o Digit(n % 10)

IntToStr(n) == IF n < 0 THEN "-" \o NatToStr(-n) ELSE NatToStr(n)

\* `{:?}` of an Option<i32>
DebugOptI32(o) == IF Len(o) = 0 THEN "None" ELSE "Some(" \o IntToStr(o[1]) \o ")"

\* the canonical reason phrase of a status code
Reason(status) ==
    CASE status = 200 -> "OK"
      [] status = 404 -> "Not Found"
      [] status = 503 -> "Service Unavailable"
      [] OTHER -> "<unknown status code>"

\* `{}` of a reqwest StatusCode
StatusText(status) == IntToStr(status) \o " " \o Reason(status)

\* StatusCode::is_success
is_success(status) == status >= 200 /\ status < 300

IsWhitespace(c) == c \in {" ", "\t", "\n", "\r"}

RECURSIVE TrimStart(_)
TrimStart(s) ==
    IF Len(s) > 0 /\ IsWhitespace(SubSeq(s, 1, 1))
    THEN TrimStart(SubSeq(s, 2, Len(s))) ELSE s

RECURSIVE TrimEnd(_)
TrimEnd(s) ==
    IF Len(s) > 0 /\ IsWhitespace(SubSeq(s, Len(s), Len(s)))
    THEN TrimEnd(SubSeq(s, 1, Len(s) - 1)) ELSE s

\* str::trim
Trim(s) == TrimEnd(TrimStart(s))

\* `c.into_iter().next()`: the first element of a Vec, if any
First(vec) == IF Len(vec) = 0 THEN None ELSE Some(vec[1])

\* ExtractText taking the last candidate and the last part instead of the first
ExtractTextLast(response) ==
    LET Last(vec) == IF Len(vec) = 0 THEN None ELSE Some(vec[Len(vec)])
        candidates == response.candidates
        candidate == IF Len(candidates) = 0 THEN None ELSE Last(candidates[1])
        content == IF Len(candidate) = 0 THEN None ELSE candidate[1].content
        parts == IF Len(content) = 0 THEN None ELSE content[1].parts
        part == IF Len(parts) = 0 THEN None ELSE Last(parts[1])
        text == IF Len(part) = 0 THEN None ELSE part[1].text
    IN  Trim(IF Len(text) = 0 THEN "" ELSE text[1])

\* "Extract text from the response": each and_then is None on None, then
\* unwrap_or_default and trim
ExtractText(response) ==
    LET candidates == response.candidates
        candidate == IF Len(candidates) = 0 THEN None ELSE First(candidates[1])
        content == IF Len(candidate) = 0 THEN None ELSE candidate[1].content
        parts == IF Len(content) = 0 THEN None ELSE content[1].parts
        part == IF Len(parts) = 0 THEN None ELSE First(parts[1])
        text == IF Len(part) = 0 THEN None ELSE part[1].text
    IN  Trim(IF Len(text) = 0 THEN "" ELSE text[1])

\* HandleResponse parsing the body before it looks at the status
HandleResponseParseFirst(answer) ==
    IF answer.kind = "transport" THEN Err("HTTP request failed: connection error")
    ELSE IF answer.kind = "read" THEN Err("Failed to read response: body error")
    ELSE LET parsed == from_str(answer.body)
         IN  IF ~parsed.ok
             THEN Err("Failed to parse response: " \o parsed.val
                      \o " - Response: " \o answer.body.text)
             ELSE IF Len(parsed.val.error) = 1
             THEN Err("Gemini API error (code "
                      \o DebugOptI32(parsed.val.error[1].code) \o "): "
                      \o parsed.val.error[1].message)
             ELSE IF ~is_success(answer.status)
             THEN Err("API request failed with status " \o StatusText(answer.status)
                      \o ": " \o answer.body.text)
             ELSE Ok(ExtractText(parsed.val))

\* HandleResponse looking at the error object only when no text was extracted
HandleResponseTextFirst(answer) ==
    IF answer.kind = "transport" THEN Err("HTTP request failed: connection error")
    ELSE IF answer.kind = "read" THEN Err("Failed to read response: body error")
    ELSE IF ~is_success(answer.status)
    THEN Err("API request failed with status " \o StatusText(answer.status)
             \o ": " \o answer.body.text)
    ELSE LET parsed == from_str(answer.body)
         IN  IF ~parsed.ok
             THEN Err("Failed to parse response: " \o parsed.val
                      \o " - Response: " \o answer.body.text)
             ELSE IF ExtractText(parsed.val) # "" THEN Ok(ExtractText(parsed.val))
             ELSE IF Len(parsed.val.error) = 1
             THEN Err("Gemini API error (code "
                      \o DebugOptI32(parsed.val.error[1].code) \o "): "
                      \o parsed.val.error[1].message)
             ELSE Ok("")

\* What the network answers to one request: the send fails ("transport"), the
\* body cannot be read ("read"), or a status and a body arrive ("http").
HandleResponse(answer) ==
    IF answer.kind = "transport" THEN Err("HTTP request failed: connection error")
    ELSE IF answer.kind = "read" THEN Err("Failed to read response: body error")
    ELSE IF ~is_success(answer.status)
    THEN Err("API request failed with status " \o StatusText(answer.status)
             \o ": " \o answer.body.text)
    ELSE LET parsed == from_str(answer.body)
         IN  IF ~parsed.ok
             THEN Err("Failed to parse response: " \o parsed.val
                      \o " - Response: " \o answer.body.text)
             ELSE IF Len(parsed.val.error) = 1
             THEN Err("Gemini API error (code "
                      \o DebugOptI32(parsed.val.error[1].code) \o "): "
                      \o parsed.val.error[1].message)
             ELSE Ok(ExtractText(parsed.val))

---------------------------------------------------------------------------
(* What the callers and the network can supply *)

ApiKeys == {"", "AIza-key"}

\* -2.0 (out of the documented range), 0.5, 1.0 and NaN
SampleValues == {Sample(-2 * SampleUnit), Sample(1), Sample(SampleUnit), NaN}

RECURSIVE SeqsUpTo(_, _)
SeqsUpTo(S, n) ==
    IF n = 0 THEN {<<>>}
    ELSE LET shorter == SeqsUpTo(S, n - 1)
         IN  shorter \cup {Append(q, x) : q \in {r \in shorter : Len(r) = n - 1}, x \in S}

SampleVectors == SeqsUpTo(SampleValues, MaxSamples)

LanguageHints == {None, Some("auto"), Some("fr")}

Statuses == {200, 404, 503}

Body(text, json) == [text |-> text, json |-> json]

PartJ(text) == JObj([text |-> JStr(text)])

ContentJ(parts) == JObj([parts |-> JArr(parts)])

CandidateJ(parts) == JObj([content |-> ContentJ(parts)])

ErrorJ(code, message) == JObj([code |-> JNum(code), message |-> JStr(message)])

\* The response bodies the network may deliver.
Bodies == <<
    Body("", None),
    Body("<html>Bad Gateway</html>", None),
    Body("{}", Some(JObj(NoFields))),
    Body("{\"candidates\":null,\"error\":null}",
         Some(JObj([candidates |-> JNull, error |-> JNull]))),
    Body("{\"candidates\":[]}", Some(JObj([candidates |-> JArr(<<>>)]))),
    Body("{\"candidates\":[{}]}", Some(JObj([candidates |-> JArr(<<JObj(NoFields)>>)]))),
    Body("{\"candidates\":[{\"content\":{}}]}",
         Some(JObj([candidates |-> JArr(<<JObj([content |-> JObj(NoFields)])>>)]))),
    Body("{\"candidates\":[{\"content\":{\"parts\":[]}}]}",
         Some(JObj([candidates |-> JArr(<<CandidateJ(<<>>)>>)]))),
    Body("{\"candidates\":[{\"content\":{\"parts\":[{}]}}]}",
         Some(JObj([candidates |-> JArr(<<CandidateJ(<<JObj(NoFields)>>)>>)]))),
    Body("{\"candidates\":[{\"content\":{\"parts\":[{\"text\":\" \\n\"}]}}]}",
         Some(JObj([candidates |-> JArr(<<CandidateJ(<<PartJ(" \n")>>)>>)]))),
    Body("{\"candidates\":[{\"content\":{\"parts\":[{\"text\":\" hello world\\n\"}]}}]}",
         Some(JObj([candidates |-> JArr(<<CandidateJ(<<PartJ(" hello world\n")>>)>>)]))),
    Body("{\"candidates\":[{\"content\":{\"parts\":[{\"text\":\"one\"},{\"text\":\"two\"}]}},{\"content\":{\"parts\":[{\"text\":\"other\"}]}}]}",
         Some(JObj([candidates |-> JArr(<<CandidateJ(<<PartJ("one"), PartJ("two")>>),
                                          CandidateJ(<<PartJ("other")>>)>>)]))),
    Body("{\"candidates\":[{\"content\":{\"parts\":[{},{\"text\":\"late\"}]}}]}",
         Some(JObj([candidates |-> JArr(<<CandidateJ(<<JObj(NoFields), PartJ("late")>>)>>)]))),
    Body("{\"candidates\":[{},{\"content\":{\"parts\":[{\"text\":\"second\"}]}}]}",
         Some(JObj([candidates |-> JArr(<<JObj(NoFields), CandidateJ(<<PartJ("second")>>)>>)]))),
    Body("{\"error\":{\"code\":429,\"message\":\"quota exceeded\"}}",
         Some(JObj([error |-> ErrorJ(429, "quota exceeded")]))),
    Body("{\"error\":{\"message\":\"overloaded\"},\"candidates\":[{\"content\":{\"parts\":[{\"text\":\"hi\"}]}}]}",
         Some(JObj([error |-> JObj([message |-> JStr("overloaded")]),
                    candidates |-> JArr(<<CandidateJ(<<PartJ("hi")>>)>>)]))),
    Body("{\"error\":{\"code\":500}}", Some(JObj([error |-> JObj([code |-> JNum(500)])]))),
    Body("{\"candidates\":\"none\"}", Some(JObj([candidates |-> JStr("none")])))
>>

\* The answers of the network to one request.
Answers ==
    {[kind |-> "transport", status |-> 0, body |-> 1],
     [kind |-> "read", status |-> 200, body |-> 1]}
    \cup [kind : {"http"}, status : Statuses, body : DOMAIN Bodies]

\* the answer with its body looked up
Answer(a) == [kind |-> a.kind, status |-> a.status, body |-> Bodies[a.body]]

---------------------------------------------------------------------------
(* transcribe_audio *)

LogLine(level, event, model, detail) ==
    [level |-> level, event |-> event, model |-> model, detail |-> detail]

ApiKeyError == "Gemini API key is not configured. Please add your API key in Settings."

\* Preconditions with the two checks in the other order
PreconditionsSamplesFirst(key, ss) ==
    IF Len(ss) = 0 THEN Some(Ok(""))
    ELSE IF key = "" THEN Some(Err(ApiKeyError))
    ELSE None

\* Preconditions without the check of the samples
PreconditionsKeyOnly(key, ss) ==
    IF key = "" THEN Some(Err(ApiKeyError)) ELSE None

\* The precondition checks, in the order of the code: Some(result) when the
\* call returns at once, None when it goes on.
Preconditions(key, ss) ==
    IF key = ""
    THEN Some(Err(ApiKeyError))
    ELSE IF Len(ss) = 0 THEN Some(Ok(""))
    ELSE None

\* RecordError keeping the first error instead of the latest
RecordErrorFirst(previous, e) == IF previous = "" THEN e ELSE previous

\* `last_error = e`
RecordError(previous, e) == e

\* `Err(format!("Gemini transcription failed: {}", last_error))`
FinalError(e) == "Gemini transcription failed: " \o e

\* OnResult without the early return: a success of a candidate that is not the
\* last is kept and the next candidate is tried all the same
OnResultNoEarlyReturn(r, idx, previous) ==
    IF idx < Len(models) THEN [ret |-> None, last_error |-> previous]
    ELSE IF r.ok THEN [ret |-> Some(Ok(r.val)), last_error |-> previous]
    ELSE [ret |-> Some(Err(FinalError(r.val))), last_error |-> r.val]

\* OnResult that takes an empty text for a failure of the candidate
OnResultEmptyIsFailure(r, idx, previous) ==
    IF r.ok /\ r.val # ""
    THEN [ret |-> Some(Ok(r.val)), last_error |-> previous]
    ELSE LET e == IF r.ok THEN "empty transcription" ELSE r.val
         IN  IF idx = Len(models)
             THEN [ret |-> Some(Err(FinalError(e))), last_error |-> e]
             ELSE [ret |-> None, last_error |-> e]

\* OnResult that gives up at the first failure: the failure of a candidate is
\* returned and no later candidate is tried
OnResultNoFallback(r, idx, previous) ==
    IF r.ok
    THEN [ret |-> Some(Ok(r.val)), last_error |-> previous]
    ELSE [ret |-> Some(Err(FinalError(r.val))), last_error |-> r.val]

\* The body of `for model in &models` after the request of models[idx] has
\* completed with r, and the return after the loop: ret is Some(result) when
\* transcribe_audio returns, None when it goes on to models[idx + 1].
OnResult(r, idx, previous) ==
    IF r.ok
    THEN [ret |-> Some(Ok(r.val)), last_error |-> previous]
    ELSE LET e == RecordError(previous, r.val)
         IN  IF idx = Len(models)
             THEN [ret |-> Some(Err(FinalError(e))), last_error |-> e]
             ELSE [ret |-> None, last_error |-> e]

\* The call of transcribe_audio up to the first request: the precondition
\* checks, the encoding, the prompt.
TranscribeAudio(key, ss, hint) ==
    /\ g_pc = "idle"
    /\ api_key' = key
    /\ samples' = ss
    /\ language_hint' = hint
    /\ LET pre == Preconditions(key, ss)
           starting == LogLine("info", "Starting Gemini transcription", "", IntToStr(Len(ss)))
       IN  IF Len(pre) = 1
           THEN /\ g_result' = pre
                /\ g_pc' = "done"
                /\ UNCHANGED <<base64_audio, prompt, model_idx, last_error, sent, log>>
           ELSE \E outcome \in WavOutcomes(ss) :
                LET wav == samples_to_wav_bytes(ss, 16000, outcome)
                IN  IF ~wav.ok
                    THEN /\ g_result' = Some(Err(wav.val))
                         /\ g_pc' = "done"
                         /\ log' = Append(log, starting)
                         /\ UNCHANGED <<base64_audio, prompt, model_idx, last_error, sent>>
                    ELSE /\ base64_audio' = Some(Base64Encode(wav.val))
                         /\ prompt' = Some(BuildPrompt(hint))
                         /\ model_idx' = 1
                         /\ last_error' = ""
                         /\ log' = log \o <<starting,
                                LogLine("debug", "Converted to WAV", "", IntToStr(Len(wav.val)))>>
                         /\ g_pc' = "request"
                         /\ UNCHANGED <<sent, g_result>>
    /\ UNCHANGED answers
    /\ UNCHANGED hvars
    /\ UNCHANGED svars

\* send_transcription_request up to `.send()`: the request for models[model_idx]
\* goes to the network.
SendRequest ==
    /\ g_pc = "request"
    /\ sent' = Append(sent, BuildRequest(api_key, models[model_idx],
                                         base64_audio[1], prompt[1]))
    /\ log' = Append(log, LogLine("debug", "Attempting transcription with model",
                                  models[model_idx], ""))
    /\ g_pc' = "await"
    /\ UNCHANGED <<api_key, samples, language_hint, base64_audio, prompt,
                   model_idx, last_error, answers, g_result>>
    /\ UNCHANGED hvars
    /\ UNCHANGED svars

\* The network answers the request in flight: the rest of
\* send_transcription_request, then the match in the loop of transcribe_audio.
ReceiveResponse(a) ==
    /\ g_pc = "await"
    /\ answers' = Append(answers, a)
    /\ LET r == HandleResponse(Answer(a))
           step == OnResult(r, model_idx, last_error)
       IN  /\ log' = Append(log,
                  IF r.ok
                  THEN LogLine("info", "Gemini transcription succeeded with model",
                               models[model_idx], IntToStr(Len(r.val)))
                  ELSE LogLine("error", "Gemini transcription failed with model",
                               models[model_idx], r.val))
           /\ last_error' = step.last_error
           /\ IF Len(step.ret) = 1
              THEN /\ g_result' = step.ret
                   /\ g_pc' = "done"
                   /\ UNCHANGED model_idx
              ELSE /\ model_idx' = model_idx + 1
                   /\ g_pc' = "request"
                   /\ UNCHANGED g_result
    /\ UNCHANGED <<api_key, samples, language_hint, base64_audio, prompt, sent>>
    /\ UNCHANGED hvars
    /\ UNCHANGED svars

---------------------------------------------------------------------------
(* The history store behind the commands (HistoryManager) *)

\* number of transcriptions saved to the history
MaxEntries == 2

EntryIds == 1..MaxEntries

\* ids a caller may pass: those of entries ever created, and one beyond them
CallerIds == 1..(MaxEntries + 1)

\* the days on which the clock is read.  An entry can be 4 days old (beyond
\* the window of Days3 only), 87 (beyond that of Weeks2 too) or 91 (beyond all).
Days == {0, 4, 91}

\* the window of a time-windowed retention period in days, None for the others
WindowDays(period) ==
    CASE period = "Days3"   -> Some(3)
      [] period = "Weeks2"  -> Some(14)
      [] period = "Months3" -> Some(90)
      [] OTHER -> None

AudioFileName(id) == "handy-" \o IntToStr(id) \o ".wav"

\* a history entry as created: not saved
HistoryEntry(id, text, audio, created_at) ==
    [id |-> id, text |-> text, audio |-> audio, created_at |-> created_at,
     saved |-> FALSE]

\* the errors of the store
NotFoundError(id) == [kind |-> "NotFound", id |-> id]

StorageIOError(ids) == [kind |-> "StorageIO", ids |-> ids]

RECURSIVE IdList(_)
\* the ids of a set, smallest first, as text
IdList(ids) ==
    IF ids = {} THEN ""
    ELSE LET m == CHOOSE i \in ids : \A j \in ids : i <= j
         IN  IntToStr(m) \o (IF ids = {m} THEN "" ELSE ", " \o IdList(ids \ {m}))

\* `e.to_string()` of an error of the store
to_string(e) ==
    IF e.kind = "NotFound"
    THEN "History entry not found: " \o IntToStr(e.id)
    ELSE "Failed to delete audio file of entries: " \o IdList(e.ids)

\* a map_err that turns the failure into a success
MapErrToOk(r) == Ok("()")

\* `.map_err(|e| e.to_string())` of the commands
MapErr(r) == IF r.ok THEN r ELSE Err(to_string(r.val))

\* positions of the entries with the given id
Positions(es, id) == {i \in DOMAIN es : es[i].id = id}

RECURSIVE Without(_, _)
\* the entries without those whose id is in ids, order kept
Without(es, ids) ==
    IF es = <<>> THEN <<>>
    ELSE IF Head(es).id \in ids THEN Without(Tail(es), ids)
         ELSE <<Head(es)>> \o Without(Tail(es), ids)

\* whether deleting the audio file of the entry succeeds
CanDeleteFile(e, lk) == Len(e.audio) = 0 \/ e.audio[1] \notin lk

AudioOf(e) == IF Len(e.audio) = 0 THEN {} ELSE {e.audio[1]}

\* HistoryManager::toggle_saved_status
toggle_saved_status(es, id) ==
    LET at == Positions(es, id)
    IN  IF at = {} THEN [result |-> Err(NotFoundError(id)), entries |-> es]
        ELSE [result |-> Ok("()"),
              entries |-> [i \in DOMAIN es |->
                              IF i \in at THEN [es[i] EXCEPT !.saved = ~es[i].saved]
                              ELSE es[i]]]

\* HistoryManager::update_transcription_text
update_transcription_text(es, id, new_text) ==
    LET at == Positions(es, id)
    IN  IF at = {} THEN [result |-> Err(NotFoundError(id)), entries |-> es]
        ELSE [result |-> Ok("()"),
              entries |-> [i \in DOMAIN es |->
                              IF i \in at THEN [es[i] EXCEPT !.text = new_text]
                              ELSE es[i]]]

\* delete_entry that deletes the record whether or not the file could be deleted
delete_entry_record_first(es, fs, lk, id) ==
    LET at == Positions(es, id)
    IN  IF at = {} THEN [result |-> Err(NotFoundError(id)), entries |-> es, files |-> fs]
        ELSE LET e == es[CHOOSE i \in at : TRUE]
             IN  IF CanDeleteFile(e, lk)
                 THEN [result |-> Ok("()"), entries |-> Without(es, {id}),
                       files |-> fs \ AudioOf(e)]
                 ELSE [result |-> Err(StorageIOError({id})),
                       entries |-> Without(es, {id}), files |-> fs]

\* HistoryManager::delete_entry
delete_entry(es, fs, lk, id) ==
    LET at == Positions(es, id)
    IN  IF at = {} THEN [result |-> Err(NotFoundError(id)), entries |-> es, files |-> fs]
        ELSE LET e == es[CHOOSE i \in at : TRUE]
             IN  IF CanDeleteFile(e, lk)
                 THEN [result |-> Ok("()"), entries |-> Without(es, {id}),
                       files |-> fs \ AudioOf(e)]
                 ELSE [result |-> Err(StorageIOError({id})), entries |-> es, files |-> fs]

\* positions of the unsaved entries: those eligible for eviction
Eligible(es) == {i \in DOMAIN es : ~es[i].saved}

\* eligible entries beyond the `limit` newest eligible ones
BeyondLimit(es, limit) ==
    {i \in Eligible(es) : Cardinality({j \in Eligible(es) : j > i}) >= limit}

\* eligible entries older than the window of a time-windowed period
OlderThanWindow(es, period, today) ==
    LET window == WindowDays(period)
    IN  IF Len(window) = 0 THEN {}
        ELSE {i \in Eligible(es) : today - es[i].created_at > window[1]}

\* a cleanup that spares no saved entry
CandidatesWithSaved(es, stored, today) ==
    {i \in DOMAIN es : Cardinality({j \in DOMAIN es : j > i}) >= stored.history_limit}

\* a cleanup that evicts one entry per pass
CandidatesOnePerPass(es, stored, today) ==
    LET all == BeyondLimit(es, stored.history_limit)
                  \cup OlderThanWindow(es, stored.recording_retention_period, today)
    IN  IF all = {} THEN {} ELSE {CHOOSE i \in all : \A j \in all : i <= j}

\* a cleanup that applies the count limit under PreserveLimit only
CandidatesLimitUnderPreserveOnly(es, stored, today) ==
    (IF stored.recording_retention_period = "PreserveLimit"
     THEN BeyondLimit(es, stored.history_limit) ELSE {})
        \cup OlderThanWindow(es, stored.recording_retention_period, today)

\* the candidates for deletion of one cleanup pass
Candidates(es, stored, today) ==
    BeyondLimit(es, stored.history_limit)
        \cup OlderThanWindow(es, stored.recording_retention_period, today)

\* HistoryManager::cleanup_old_entries on the store: every candidate whose audio
\* file can be deleted is removed with its file; one that fails is kept with
\* its file and reported, without stopping the pass.  store_ok = FALSE is a
\* pass that fails before it deletes anything.
cleanup_expired(es, fs, lk, stored, today, store_ok) ==
    LET cand    == IF store_ok THEN Candidates(es, stored, today) ELSE {}
        removed == {i \in cand : CanDeleteFile(es[i], lk)}
        failed  == cand \ removed
    IN  [ok      |-> store_ok /\ failed = {},
         deleted |-> {es[i].id : i \in removed},
         failed  |-> {es[i].id : i \in failed},
         entries |-> Without(es, {es[i].id : i \in removed}),
         files   |-> fs \ UNION {AudioOf(es[i]) : i \in removed}]

---------------------------------------------------------------------------
(* commands/history.rs: update_history_limit, update_recording_retention_period *)

\* The invocations of the two commands, numbered in the order they are invoked.
\* Tauri runs each async command as its own task, so invocations overlap.
Invocations == 1..MaxInvocations

Limits == 0..MaxLimit

\* the variants of settings::RecordingRetentionPeriod
RetentionPeriods == {"Never", "PreserveLimit", "Days3", "Weeks2", "Months3"}

ValidTokens == {"never", "preserve_limit", "days3", "weeks2", "months3"}

\* the `period` strings a caller may pass: the five tokens and others
PeriodTokens == ValidTokens \cup {"", "Never", "days30"}

\* ParsePeriod falling back to a default policy for an unknown token
ParsePeriodFallback(period) ==
    CASE period = "never"          -> Ok("Never")
      [] period = "preserve_limit" -> Ok("PreserveLimit")
      [] period = "days3"          -> Ok("Days3")
      [] period = "weeks2"         -> Ok("Weeks2")
      [] period = "months3"        -> Ok("Months3")
      [] OTHER -> Ok("PreserveLimit")

\* `match period.as_str() {...}`
ParsePeriod(period) ==
    CASE period = "never"          -> Ok("Never")
      [] period = "preserve_limit" -> Ok("PreserveLimit")
      [] period = "days3"          -> Ok("Days3")
      [] period = "weeks2"         -> Ok("Weeks2")
      [] period = "months3"        -> Ok("Months3")
      [] OTHER -> Err("Invalid retention period: " \o period)

\* the settings object, with the fields the commands of history.rs use
AppSettings(limit, period, keys) ==
    [history_limit |-> limit, recording_retention_period |-> period,
     post_process_api_keys |-> keys]

StoredApiKeys == [gemini_transcription |-> "AIza-key"]

\* the settings stored before any command of the model runs
StoredSettings == AppSettings(0, "PreserveLimit", StoredApiKeys)

NoCommand == [name |-> "none", limit |-> 0, period |-> ""]

\* settings::write_settings called by invocation p with the object `written`
write_settings(p, written) ==
    [fn |-> "write_settings", by |-> p, history_limit |-> written.history_limit,
     recording_retention_period |-> written.recording_retention_period, ok |-> TRUE]

\* HistoryManager::cleanup_old_entries, as far as the commands see it: one run,
\* against the limit and the retention period stored when it runs, that
\* succeeds or fails.
cleanup_old_entries(p, stored, ok) ==
    [fn |-> "cleanup_old_entries", by |-> p, history_limit |-> stored.history_limit,
     recording_retention_period |-> stored.recording_retention_period, ok |-> ok]

CanInvoke(p) ==
    /\ h_pc[p] = "idle"
    /\ IF p = 1 THEN TRUE ELSE h_pc[p - 1] # "idle"

\* update_history_limit is invoked and reads the settings (get_settings).
UpdateHistoryLimit(p, limit) ==
    /\ CanInvoke(p)
    /\ h_cmd' = [h_cmd EXCEPT ![p] =
                    [name |-> "update_history_limit", limit |-> limit, period |-> ""]]
    /\ h_local' = [h_local EXCEPT ![p] = Some(settings)]
    /\ h_pc' = [h_pc EXCEPT ![p] = "write"]
    /\ UNCHANGED <<settings, h_result, calls>>
    /\ UNCHANGED gvars
    /\ UNCHANGED svars

\* update_recording_retention_period is invoked: it matches the token and
\* returns an error for an unknown one, or reads the settings (get_settings).
UpdateRecordingRetentionPeriod(p, period) ==
    /\ CanInvoke(p)
    /\ h_cmd' = [h_cmd EXCEPT ![p] =
                    [name |-> "update_recording_retention_period", limit |-> 0,
                     period |-> period]]
    /\ LET retention_period == ParsePeriod(period)
       IN  IF ~retention_period.ok
           THEN /\ h_result' = [h_result EXCEPT ![p] = Some(retention_period)]
                /\ h_pc' = [h_pc EXCEPT ![p] = "done"]
                /\ UNCHANGED h_local
           ELSE /\ h_local' = [h_local EXCEPT ![p] = Some(settings)]
                /\ h_pc' = [h_pc EXCEPT ![p] = "write"]
                /\ UNCHANGED h_result
    /\ UNCHANGED <<settings, calls>>
    /\ UNCHANGED gvars
    /\ UNCHANGED svars

\* the settings a command writes: its copy with its one field assigned
Modified(copy, cmd) ==
    IF cmd.name = "update_history_limit"
    THEN [copy EXCEPT !.history_limit = cmd.limit]
    ELSE [copy EXCEPT !.recording_retention_period = ParsePeriod(cmd.period).val]

\* `settings.<field> = ...; write_settings(&app, settings)`: the whole object
\* is stored, and the local is moved into the call.
WriteSettings(p) ==
    /\ h_pc[p] = "write"
    /\ settings' = Modified(h_local[p][1], h_cmd[p])
    /\ calls' = Append(calls, write_settings(p, settings'))
    /\ h_local' = [h_local EXCEPT ![p] = None]
    /\ h_pc' = [h_pc EXCEPT ![p] = "cleanup"]
    /\ UNCHANGED <<h_cmd, h_result>>
    /\ UNCHANGED gvars
    /\ UNCHANGED svars

\* what the command returns after cleanup_old_entries has run
AfterCleanup(run) ==
    IF run.ok THEN Ok("()") ELSE Err("cleanup_old_entries failed")

\* Cleanup that puts the settings of before the commands back when the pass fails
CleanupRollingBack(p) ==
    /\ h_pc[p] = "cleanup"
    /\ \E store_ok \in BOOLEAN :
          LET pass == cleanup_expired(entries, files, locked, settings, now, store_ok)
              run == cleanup_old_entries(p, settings, pass.ok)
          IN  /\ entries' = pass.entries
              /\ files' = pass.files
              /\ calls' = Append(calls, run)
              /\ h_result' = [h_result EXCEPT ![p] = Some(AfterCleanup(run))]
              /\ settings' = IF pass.ok THEN settings ELSE StoredSettings
    /\ h_pc' = [h_pc EXCEPT ![p] = "done"]
    /\ UNCHANGED <<h_cmd, h_local>>
    /\ UNCHANGED <<locked, now, next_id, s_cmd, s_result>>
    /\ UNCHANGED gvars

\* `history_manager.cleanup_old_entries().map_err(|e| e.to_string())?; Ok(())`
Cleanup(p) ==
    /\ h_pc[p] = "cleanup"
    /\ \E store_ok \in BOOLEAN :
          LET pass == cleanup_expired(entries, files, locked, settings, now, store_ok)
              run == cleanup_old_entries(p, settings, pass.ok)
          IN  /\ entries' = pass.entries
              /\ files' = pass.files
              /\ calls' = Append(calls, run)
              /\ h_result' = [h_result EXCEPT ![p] = Some(AfterCleanup(run))]
    /\ h_pc' = [h_pc EXCEPT ![p] = "done"]
    /\ UNCHANGED <<settings, h_cmd, h_local>>
    /\ UNCHANGED <<locked, now, next_id, s_cmd, s_result>>
    /\ UNCHANGED gvars

---------------------------------------------------------------------------
(* The commands of history.rs on the store, one at a time *)

\* the last command run on the store, none if the clock or the file system has
\* changed since: its name, the id it was given or created, whether it ran a
\* cleanup pass, the ids the pass evicted, and whether the pass came right
\* after another command's pass with the same limit and retention period
\* stored and nothing changed in between
StoreCommand(name, id, pass, evicted, repeat) ==
    [name |-> name, id |-> id, pass |-> pass, evicted |-> evicted, repeat |-> repeat]

NoStoreCommand == StoreCommand("none", 0, FALSE, {}, FALSE)

\* a transcription and its recording are saved to the history
save_transcription(text) ==
    /\ next_id <= MaxEntries
    /\ entries' = Append(entries,
                      HistoryEntry(next_id, text, Some(AudioFileName(next_id)), now))
    /\ files' = files \cup {AudioFileName(next_id)}
    /\ next_id' = next_id + 1
    /\ s_cmd' = StoreCommand("save_transcription", next_id, FALSE, {}, FALSE)
    /\ s_result' = Some(Ok("()"))
    /\ UNCHANGED <<locked, now>>
    /\ UNCHANGED <<gvars, hvars>>

\* time passes
AdvanceClock(day) ==
    /\ day > now
    /\ now' = day
    /\ s_cmd' = NoStoreCommand
    /\ s_result' = None
    /\ UNCHANGED <<entries, files, locked, next_id>>
    /\ UNCHANGED <<gvars, hvars>>

\* the file system starts or stops refusing the deletion of an audio file
SetLocked(lk) ==
    /\ lk \subseteq files
    /\ lk # locked
    /\ locked' = lk
    /\ s_cmd' = NoStoreCommand
    /\ s_result' = None
    /\ UNCHANGED <<entries, files, now, next_id>>
    /\ UNCHANGED <<gvars, hvars>>

\* the command toggle_history_entry_saved
toggle_history_entry_saved(id) ==
    /\ LET r == toggle_saved_status(entries, id)
       IN  /\ entries' = r.entries
           /\ s_result' = Some(MapErr(r.result))
    /\ s_cmd' = StoreCommand("toggle_history_entry_saved", id, FALSE, {}, FALSE)
    /\ UNCHANGED <<files, locked, now, next_id>>
    /\ UNCHANGED <<gvars, hvars>>

\* the command update_history_entry_text
update_history_entry_text(id, new_text) ==
    /\ LET r == update_transcription_text(entries, id, new_text)
       IN  /\ entries' = r.entries
           /\ s_result' = Some(MapErr(r.result))
    /\ s_cmd' = StoreCommand("update_history_entry_text", id, FALSE, {}, FALSE)
    /\ UNCHANGED <<files, locked, now, next_id>>
    /\ UNCHANGED <<gvars, hvars>>

\* the command delete_history_entry
delete_history_entry(id) ==
    /\ LET r == delete_entry(entries, files, locked, id)
       IN  /\ entries' = r.entries
           /\ files' = r.files
           /\ s_result' = Some(MapErr(r.result))
    /\ s_cmd' = StoreCommand("delete_history_entry", id, FALSE, {}, FALSE)
    /\ UNCHANGED <<locked, now, next_id>>
    /\ UNCHANGED <<gvars, hvars>>

\* a settings command run from its get_settings to its return with no other
\* command in between, on a store that can be read: the write, then the
\* cleanup pass against what was written
RunSettingsCommand(cmd) ==
    LET written == Modified(settings, cmd)
        run == cleanup_expired(entries, files, locked, written, now, TRUE)
    IN  /\ settings' = written
        /\ entries' = run.entries
        /\ files' = run.files
        /\ s_result' = Some(AfterCleanup(run))
        /\ s_cmd' = StoreCommand(cmd.name, 0, TRUE, run.deleted,
                                 s_cmd.pass /\ written = settings)

\* the command update_history_limit, not overlapping any other command
update_history_limit(limit) ==
    /\ RunSettingsCommand(
          [name |-> "update_history_limit", limit |-> limit, period |-> ""])
    /\ UNCHANGED <<locked, now, next_id>>
    /\ UNCHANGED <<h_pc, h_cmd, h_local, h_result, calls>>
    /\ UNCHANGED gvars

\* the command update_recording_retention_period, not overlapping any other
update_recording_retention_period(period) ==
    /\ LET retention_period == ParsePeriod(period)
           cmd == [name |-> "update_recording_retention_period", limit |-> 0,
                   period |-> period]
       IN  IF ~retention_period.ok
           THEN /\ s_result' = Some(retention_period)
                /\ s_cmd' = StoreCommand(cmd.name, 0, FALSE, {}, FALSE)
                /\ UNCHANGED <<settings, entries, files>>
           ELSE RunSettingsCommand(cmd)
    /\ UNCHANGED <<locked, now, next_id>>
    /\ UNCHANGED <<h_pc, h_cmd, h_local, h_result, calls>>
    /\ UNCHANGED gvars

---------------------------------------------------------------------------
(* The specifications *)

Init ==
    /\ g_pc = "idle"
    /\ api_key = ""
    /\ samples = <<>>
    /\ language_hint = None
    /\ base64_audio = None
    /\ prompt = None
    /\ model_idx = 1
    /\ last_error = ""
    /\ sent = <<>>
    /\ answers = <<>>
    /\ log = <<>>
    /\ g_result = None
    /\ settings = StoredSettings
    /\ h_pc = [p \in Invocations |-> "idle"]
    /\ h_cmd = [p \in Invocations |-> NoCommand]
    /\ h_local = [p \in Invocations |-> None]
    /\ h_result = [p \in Invocations |-> None]
    /\ calls = <<>>
    /\ entries = <<>>
    /\ files = {}
    /\ locked = {}
    /\ now = 0
    /\ next_id = 1
    /\ s_cmd = NoStoreCommand
    /\ s_result = None

\* one call of transcribe_audio
NextGemini ==
    \/ \E key \in ApiKeys, ss \in SampleVectors, hint \in LanguageHints :
          TranscribeAudio(key, ss, hint)
    \/ SendRequest
    \/ \E a \in Answers : ReceiveResponse(a)

\* the settings commands of history.rs, overlapping
NextHistory ==
    \/ \E p \in Invocations, limit \in Limits : UpdateHistoryLimit(p, limit)
    \/ \E p \in Invocations, period \in PeriodTokens : UpdateRecordingRetentionPeriod(p, period)
    \/ \E p \in Invocations : WriteSettings(p)
    \/ \E p \in Invocations : Cleanup(p)

\* the single-entry commands of history.rs on the store, one at a time, while
\* entries are saved and file deletions start and stop failing
NextStore ==
    \/ \E text \in {"hello world"} : save_transcription(text)
    \/ \E lk \in SUBSET files : SetLocked(lk)
    \/ \E id \in CallerIds : toggle_history_entry_saved(id)
    \/ \E id \in CallerIds, new_text \in {"edited"} : update_history_entry_text(id, new_text)
    \/ \E id \in CallerIds : delete_history_entry(id)

\* the settings commands of history.rs on the store, one at a time, while
\* entries are saved and marked, time passes and file deletions start and stop
\* failing
NextRetention ==
    \/ \E text \in {"hello world"} : save_transcription(text)
    \/ \E day \in Days : AdvanceClock(day)
    \/ \E lk \in SUBSET files : SetLocked(lk)
    \/ \E id \in EntryIds : toggle_history_entry_saved(id)
    \/ \E limit \in Limits : update_history_limit(limit)
    \/ \E period \in ValidTokens \cup {"days30"} : update_recording_retention_period(period)

Next == NextGemini \/ NextHistory \/ NextStore \/ NextRetention

SpecGemini == Init /\ [][NextGemini]_vars

SpecHistory == Init /\ [][NextHistory]_vars

SpecStore == Init /\ [][NextStore]_vars

SpecRetention == Init /\ [][NextRetention]_vars

Spec == Init /\ [][Next]_vars

---------------------------------------------------------------------------
(* Properties of transcribe_audio *)

PrimaryModel == "gemini-2.5-flash"

FallbackModel == "gemini-2.0-flash"

\* the result of the i-th request of the call, from the answer the network gave
ResultOf(i) == HandleResponse(Answer(answers[i]))

\* transcribe_audio has been called
Called == g_pc # "idle"

Returned == g_pc = "done" /\ Len(g_result) = 1

\* C1: a call with an empty api_key returns the configuration error without
\* encoding anything and without any request, whatever the samples and the
\* language hint are; the key is checked before the samples.
C1_EmptyKeyIsConfigurationError ==
    (Called /\ api_key = "") =>
        /\ Returned
        /\ g_result = Some(Err(ApiKeyError))
        /\ sent = <<>>
        /\ Len(base64_audio) = 0

\* an empty key together with an empty sample list has been rejected
C1_Witness ==
    /\ Returned /\ api_key = "" /\ Len(samples) = 0 /\ Len(language_hint) = 1
    /\ ~g_result[1].ok

\* C2: a call with a key and no samples returns Ok("") and neither encodes nor
\* requests anything.
C2_EmptySamplesShortCircuit ==
    (Called /\ api_key # "" /\ Len(samples) = 0) =>
        /\ Returned
        /\ g_result = Some(Ok(""))
        /\ sent = <<>>
        /\ Len(base64_audio) = 0
        /\ Len(prompt) = 0

C2_Witness ==
    Returned /\ api_key # "" /\ Len(samples) = 0 /\ g_result[1].ok

\* C3: the i-th request of a call goes to the i-th model, so the primary is
\* asked first; the fallback is asked only once the primary's request has
\* failed; and when the primary fails and the fallback succeeds the call
\* returns the text extracted from the fallback's answer.
C3_FallbackOrdering ==
    /\ Len(sent) <= Len(models)
    /\ \A i \in DOMAIN sent : sent[i].model = models[i]
    /\ Len(sent) >= 1 => sent[1].model = PrimaryModel
    /\ \A i \in DOMAIN sent :
          sent[i].model = FallbackModel =>
              /\ i = 2
              /\ Len(answers) >= 1
              /\ ~ResultOf(1).ok
    /\ (Len(answers) = 2 /\ ~ResultOf(1).ok /\ ResultOf(2).ok) =>
          /\ Returned
          /\ g_result = Some(Ok(ResultOf(2).val))

\* the primary has failed and the fallback has answered with a text
C3_Witness ==
    /\ Returned /\ Len(answers) = 2
    /\ ~ResultOf(1).ok /\ ResultOf(2).ok /\ ResultOf(2).val = "hello world"
    /\ sent[1].model = PrimaryModel /\ sent[2].model = FallbackModel

\* C4: as soon as a candidate's request succeeds the call has returned that
\* candidate's text, and no later candidate has been or will be requested.
C4_EarlyReturnOnSuccess ==
    \A i \in DOMAIN answers :
        ResultOf(i).ok =>
            /\ Returned
            /\ g_result = Some(Ok(ResultOf(i).val))
            /\ Len(sent) = i
            /\ Len(answers) = i

\* the primary has succeeded with a text
C4_Witness ==
    /\ Returned /\ Len(answers) = 1 /\ ResultOf(1).ok /\ ResultOf(1).val = "one"
    /\ Len(sent) = 1

AllCandidatesFailed ==
    /\ Len(answers) = Len(models)
    /\ \A i \in DOMAIN answers : ~ResultOf(i).ok

\* C5: when every candidate has failed the call returns one failure made of
\* the last candidate's error; and a call that has asked the network returns a
\* failure only when every candidate has been asked and has failed.
C5_AggregatedFailureIsLast ==
    /\ AllCandidatesFailed =>
          /\ Returned
          /\ g_result = Some(Err(FinalError(ResultOf(Len(models)).val)))
    /\ (Returned /\ Len(sent) >= 1 /\ ~g_result[1].ok) =>
          /\ AllCandidatesFailed
          /\ Len(sent) = Len(models)

\* both candidates have failed, each with its own error
C5_Witness ==
    /\ Returned /\ AllCandidatesFailed
    /\ ResultOf(1).val # ResultOf(2).val
    /\ g_result[1].val = FinalError(ResultOf(2).val)

---------------------------------------------------------------------------
(* Properties of send_transcription_request *)

IsResultLine(line) ==
    line.event \in {"Gemini transcription succeeded with model",
                    "Gemini transcription failed with model"}

\* the log lines that report how each request ended, in order
ResultLines == SelectSeq(log, IsResultLine)

\* the i-th request ended in the failure e: transcribe_audio logged it as the
\* error of that model
RequestFailedWith(i, e) ==
    /\ i <= Len(ResultLines)
    /\ ResultLines[i].level = "error"
    /\ ResultLines[i].model = sent[i].model
    /\ ResultLines[i].detail = e

\* the i-th request ended in the success t: transcribe_audio returned it
RequestSucceededWith(i, t) ==
    /\ i <= Len(ResultLines)
    /\ ResultLines[i].level = "info"
    /\ i = Len(answers)
    /\ Returned
    /\ g_result = Some(Ok(t))

BodyOf(i) == Bodies[answers[i].body]

IsHttp(i) == answers[i].kind = "http"

SuccessStatus(i) == IsHttp(i) /\ answers[i].status >= 200 /\ answers[i].status <= 299

\* the body of the i-th answer is JSON that deserializes into a GeminiResponse
Parseable(i) == Len(BodyOf(i).json) = 1 /\ DeGeminiResponse(BodyOf(i).json[1]).ok

\* the JSON body of the i-th answer has a top-level error object
HasErrorObject(i) ==
    /\ "error" \in DOMAIN BodyOf(i).json[1].v
    /\ BodyOf(i).json[1].v["error"].t = "obj"

\* C6: an answer with a non-success status is the failure made of the status
\* and the raw body, whatever the body is: it is never a success.
C6_NonSuccessStatusIsFailure ==
    \A i \in DOMAIN answers :
        (IsHttp(i) /\ ~SuccessStatus(i)) =>
            /\ RequestFailedWith(i, "API request failed with status "
                    \o IntToStr(answers[i].status) \o " " \o Reason(answers[i].status)
                    \o ": " \o BodyOf(i).text)
            /\ (Returned /\ i = Len(answers)) => ~g_result[1].ok

\* a 404 whose body holds well-formed candidates text has been answered
C6_Witness ==
    /\ Len(answers) >= 1 /\ IsHttp(1) /\ answers[1].status = 404
    /\ Parseable(1) /\ ~HasErrorObject(1)
    /\ BodyOf(1).text = "{\"candidates\":[{\"content\":{\"parts\":[{\"text\":\" hello world\\n\"}]}}]}"
    /\ ResultLines[1].level = "error"

\* C7: in a success-status, parseable answer a top-level error object is the
\* failure of the request, carrying its message, also when the answer has
\* candidates with text; a request succeeds only on an answer without one.
C7_ErrorObjectTakesPrecedence ==
    \A i \in DOMAIN answers :
        /\ (SuccessStatus(i) /\ Parseable(i) /\ HasErrorObject(i)) =>
              LET error == BodyOf(i).json[1].v["error"].v
              IN  RequestFailedWith(i, "Gemini API error (code "
                      \o (IF "code" \in DOMAIN error
                          THEN "Some(" \o IntToStr(error["code"].v) \o ")" ELSE "None")
                      \o "): " \o error["message"].v)
        /\ (i <= Len(ResultLines) /\ ResultLines[i].level = "info") =>
              SuccessStatus(i) /\ Parseable(i) /\ ~HasErrorObject(i)

\* a 200 with an error object and candidates text "hi" has been answered
C7_Witness ==
    /\ Len(answers) >= 1 /\ SuccessStatus(1) /\ Parseable(1) /\ HasErrorObject(1)
    /\ "candidates" \in DOMAIN BodyOf(1).json[1].v
    /\ ResultLines[1].level = "error"

\* the text of the first part of the first candidate of a JSON document, ""
\* when a level is missing, null or empty
RECURSIVE Descend(_, _)
Descend(doc, path) ==
    IF Len(path) = 0 THEN (IF doc.t = "str" THEN doc.v ELSE "")
    ELSE IF Head(path) = "first"
    THEN (IF doc.t = "arr" /\ Len(doc.v) >= 1 THEN Descend(doc.v[1], Tail(path)) ELSE "")
    ELSE (IF doc.t = "obj" /\ Head(path) \in DOMAIN doc.v
          THEN Descend(doc.v[Head(path)], Tail(path)) ELSE "")

FirstText(doc) == Descend(doc, <<"candidates", "first", "content", "parts", "first", "text">>)

\* the texts that the bodies hold in later candidates and later parts
LaterTexts == {"two", "other", "late", "second"}

\* C8: a success-status, parseable answer without a top-level error is a
\* success whose text is the trimmed text of the first part of the first
\* candidate, and "" when candidates, content, parts or text is missing or
\* empty; later candidates and parts are not consulted.
C8_ExtractionIsTotal ==
    \A i \in DOMAIN answers :
        (SuccessStatus(i) /\ Parseable(i) /\ ~HasErrorObject(i)) =>
            /\ RequestSucceededWith(i, Trim(FirstText(BodyOf(i).json[1])))
            /\ g_result[1].val \notin LaterTexts

\* an answer whose first part has no text and whose second part has one has
\* been turned into Ok("")
C8_Witness ==
    /\ Len(answers) = 1 /\ SuccessStatus(1) /\ Parseable(1) /\ ~HasErrorObject(1)
    /\ BodyOf(1).text = "{\"candidates\":[{\"content\":{\"parts\":[{},{\"text\":\"late\"}]}}]}"
    /\ g_result = Some(Ok(""))

---------------------------------------------------------------------------
(* Properties of the fallback loop *)

\* the requests sent and not yet answered
InFlight == Len(sent) - Len(answers)

\* the steps the call can still take before it returns, at most
Remaining ==
    CASE g_pc = "idle"    -> 2 * Len(models) + 1
      [] g_pc = "request" -> 2 * (Len(models) - model_idx) + 2
      [] g_pc = "await"   -> 2 * (Len(models) - model_idx) + 1
      [] OTHER -> 0

\* C16: the loop is sequential.  At most one request is in flight, and the
\* next one is sent only after the answer to the one before; no model is
\* requested twice and no call sends more than two requests.  The call always
\* ends: while it has not returned it has a candidate, the audio and the prompt
\* to send or an answer to wait for, every step brings it closer to its
\* return, and once every request sent has been answered it has returned a
\* result or has another candidate to ask.
C16_SequentialState ==
    /\ InFlight \in {0, 1}
    /\ InFlight = 1 <=> g_pc = "await"
    /\ Len(sent) <= 2
    /\ \A i, j \in DOMAIN sent : i # j => sent[i].model # sent[j].model
    /\ g_pc \in {"request", "await"} =>
          /\ model_idx \in DOMAIN models
          /\ Len(sent) = model_idx - (IF g_pc = "request" THEN 1 ELSE 0)
          /\ Len(base64_audio) = 1 /\ Len(prompt) = 1
    /\ (Called /\ InFlight = 0) =>
          \/ Returned
          \/ g_pc = "request" /\ Len(sent) < Len(models)
    /\ Len(answers) = Len(models) => Returned
    /\ Remaining = 0 <=> Returned

C16_SequentialStep ==
    /\ Remaining' < Remaining
    /\ Len(sent') > Len(sent) => (InFlight = 0 /\ Len(sent') = Len(sent) + 1)

C16_FallbackLoopIsSequential == [](C16_SequentialState) /\ [][C16_SequentialStep]_vars

\* both candidates have been requested, one after the other's answer, and the
\* call has returned the aggregate failure
C16_Witness ==
    /\ Returned /\ ~g_result[1].ok
    /\ Len(sent) = 2 /\ Len(answers) = 2
    /\ sent[1].model # sent[2].model
    /\ Remaining = 0

\* the kinds of failure of the i-th request
TransportFailure(i) == answers[i].kind \in {"transport", "read"}

StatusFailure(i) == IsHttp(i) /\ ~SuccessStatus(i)

UnparseableBody(i) == SuccessStatus(i) /\ ~Parseable(i)

ProviderError(i) == SuccessStatus(i) /\ Parseable(i) /\ HasErrorObject(i)

CandidateFailure(i) ==
    TransportFailure(i) \/ StatusFailure(i) \/ UnparseableBody(i) \/ ProviderError(i)

EncodingErrors ==
    {"Failed to create WAV writer: io error", "Failed to write sample: io error",
     "Failed to finalize WAV: io error"}

\* the call is about to request the fallback, or has requested it, with the
\* prompt and the encoded audio of the first request
FallbackTried ==
    \/ g_pc = "request" /\ model_idx = 2 /\ Len(sent) = 1 /\ ~Returned
    \/ /\ Len(sent) = 2
       /\ sent[2].model = FallbackModel
       /\ sent[2].parts = sent[1].parts
       /\ sent[2].content_type = sent[1].content_type

\* C17: whichever way the request of the primary fails (transport, status
\* that is not a success, body that cannot be parsed, error object of the
\* provider) the fallback is tried next, with the same prompt and the same
\* encoded audio, built from the arguments of the call.  A call with an empty
\* key, or whose encoding fails, returns that error at once with no request;
\* and a call returns a failure without any request in these two cases only.
C17_FailureBranching ==
    /\ (Len(answers) >= 1 /\ CandidateFailure(1)) => FallbackTried
    /\ \A i \in DOMAIN sent :
          /\ sent[i].parts[1].text = BuildPrompt(language_hint)
          /\ sent[i].parts[2].inline_data.data = base64_audio[1]
    /\ (Called /\ api_key = "") =>
          Returned /\ g_result = Some(Err(ApiKeyError)) /\ sent = <<>>
    /\ (Called /\ api_key # "" /\ samples # <<>> /\ Len(base64_audio) = 0) =>
          /\ Returned /\ ~g_result[1].ok
          /\ g_result[1].val \in EncodingErrors
          /\ sent = <<>>
    /\ (Returned /\ ~g_result[1].ok /\ sent = <<>>) =>
          g_result[1].val \in EncodingErrors \cup {ApiKeyError}
    /\ (Returned /\ ~g_result[1].ok /\ sent # <<>>) =>
          Len(sent) = 2 /\ CandidateFailure(1) /\ CandidateFailure(2)

\* the body of the primary's answer could not be parsed, and the fallback was
\* requested with the same prompt and audio and answered by a provider error
C17_Witness ==
    /\ Len(answers) = 2
    /\ UnparseableBody(1) /\ ProviderError(2)
    /\ sent[1].model = PrimaryModel /\ sent[2].model = FallbackModel
    /\ sent[2].parts = sent[1].parts
    /\ language_hint = Some("fr") /\ Len(samples) = 2

\* the text is empty or made of whitespace only
Blank(t) == \A k \in 1..Len(t) : SubSeq(t, k, k) \in {" ", "\n", "\t", "\r"}

\* the i-th answer is a success whose body yields no text: no candidates, no
\* content, no parts, no text, or a text of whitespace
EmptyExtraction(i) ==
    /\ SuccessStatus(i) /\ Parseable(i) /\ ~HasErrorObject(i)
    /\ Blank(FirstText(BodyOf(i).json[1]))

\* C20: when the answer of the primary is a success whose body yields no text,
\* the call has returned Ok("") on that answer: one request, to the primary,
\* no request to the fallback then or later, and no failure logged.
C20_EmptyExtractionEndsFallback ==
    (Len(answers) >= 1 /\ EmptyExtraction(1)) =>
        /\ Returned
        /\ g_result = Some(Ok(""))
        /\ Len(sent) = 1 /\ Len(answers) = 1
        /\ sent[1].model = PrimaryModel
        /\ \A i \in DOMAIN sent : sent[i].model # FallbackModel
        /\ \A k \in DOMAIN log : log[k].level # "error"

\* the primary has answered 200 with a text of whitespace only, and the call
\* has returned Ok("") without asking the fallback
C20_Witness ==
    /\ Len(answers) = 1 /\ EmptyExtraction(1)
    /\ FirstText(BodyOf(1).json[1]) = " \n"
    /\ g_result = Some(Ok("")) /\ Len(sent) = 1

---------------------------------------------------------------------------
(* Properties of the settings commands *)

IsLimitCommand(p) == h_cmd[p].name = "update_history_limit"

IsRetentionCommand(p) == h_cmd[p].name = "update_recording_retention_period"

\* the positions in calls of the calls of fn made by invocation p
CallsOf(p, fn) == {i \in DOMAIN calls : calls[i].by = p /\ calls[i].fn = fn}

HasReturned(p) == h_pc[p] = "done" /\ Len(h_result[p]) = 1

\* the policy each token of the settings format stands for
PolicyOf ==
    [t \in ValidTokens |->
        CASE t = "never" -> "Never"
          [] t = "preserve_limit" -> "PreserveLimit"
          [] t = "days3" -> "Days3"
          [] t = "weeks2" -> "Weeks2"
          [] t = "months3" -> "Months3"]

\* the run of cleanup_old_entries at position c saw the value that invocation p wrote
SawWrittenValue(p, c) ==
    IF IsLimitCommand(p)
    THEN calls[c].history_limit = h_cmd[p].limit
    ELSE calls[c].recording_retention_period = PolicyOf[h_cmd[p].period]

\* an invocation that has written the settings and returned has called
\* cleanup_old_entries once, after its write, and returns Ok exactly when that
\* run succeeded
CleanupFollowsWrite(p) ==
    /\ Cardinality(CallsOf(p, "write_settings")) = 1
    /\ Cardinality(CallsOf(p, "cleanup_old_entries")) = 1
    /\ \A w \in CallsOf(p, "write_settings"), c \in CallsOf(p, "cleanup_old_entries") :
          /\ w < c
          /\ h_result[p][1].ok <=> calls[c].ok

\* C9 as claimed: every invocation of update_history_limit or
\* update_recording_retention_period that writes the settings then runs
\* cleanup_old_entries once, after the write, returns Ok only if that run
\* succeeded, and that run is made against the limit or policy it has just
\* written.
C9_CleanupRunsAgainstWrittenValue ==
    \A p \in Invocations :
        (HasReturned(p) /\ CallsOf(p, "write_settings") # {}) =>
            /\ CleanupFollowsWrite(p)
            /\ \A c \in CallsOf(p, "cleanup_old_entries") : SawWrittenValue(p, c)

\* C9, the part the code keeps under every interleaving: the cleanup follows
\* the write within the command and decides the command's result.
C9_CleanupFollowsWrite ==
    \A p \in Invocations :
        (HasReturned(p) /\ CallsOf(p, "write_settings") # {}) => CleanupFollowsWrite(p)

\* C10: update_recording_retention_period with a token that is none of the
\* five returns the error naming the token, never writes the settings and
\* never runs cleanup; its step leaves the stored settings and the calls as
\* they were; and the five tokens stand for five distinct policies, the ones
\* the settings format gives them.
C10_UnknownTokenState ==
    /\ \A p \in Invocations :
          (IsRetentionCommand(p) /\ h_cmd[p].period \notin ValidTokens) =>
              /\ HasReturned(p)
              /\ h_result[p] = Some(Err("Invalid retention period: " \o h_cmd[p].period))
              /\ CallsOf(p, "write_settings") = {}
              /\ CallsOf(p, "cleanup_old_entries") = {}
              /\ Len(h_local[p]) = 0
    /\ \A p \in Invocations :
          (IsRetentionCommand(p) /\ h_cmd[p].period \in ValidTokens) =>
              /\ \A w \in CallsOf(p, "write_settings") :
                    calls[w].recording_retention_period = PolicyOf[h_cmd[p].period]
              /\ HasReturned(p) => CallsOf(p, "write_settings") # {}
    /\ \A t1, t2 \in ValidTokens :
          /\ ParsePeriod(t1).ok
          /\ t1 # t2 => ParsePeriod(t1).val # ParsePeriod(t2).val

C10_UnknownTokenStep ==
    \A p \in Invocations :
        (h_pc[p] = "idle" /\ h_cmd'[p].name = "update_recording_retention_period"
                          /\ h_cmd'[p].period \notin ValidTokens) =>
            /\ settings' = settings
            /\ calls' = calls
            /\ h_pc'[p] = "done"

C10_UnknownTokenIsError == [](C10_UnknownTokenState) /\ [][C10_UnknownTokenStep]_vars

\* an invocation with the token "days30" has returned its error while the
\* other invocation has written the settings
C10_Witness ==
    \E p, q \in Invocations :
        /\ IsRetentionCommand(p) /\ h_cmd[p].period = "days30"
        /\ HasReturned(p) /\ ~h_result[p][1].ok
        /\ IsRetentionCommand(q) /\ h_cmd[q].period = "weeks2" /\ HasReturned(q)
        /\ settings.recording_retention_period = "Weeks2"

\* the last run of cleanup_old_entries
LastCleanup ==
    calls[CHOOSE c \in DOMAIN calls :
              /\ calls[c].fn = "cleanup_old_entries"
              /\ \A d \in DOMAIN calls : calls[d].fn = "cleanup_old_entries" => d <= c]

\* p and q are the only commands invoked, and both have returned
OnlyTheseReturned(p, q) ==
    /\ HasReturned(p) /\ HasReturned(q)
    /\ \A r \in Invocations \ {p, q} : h_pc[r] = "idle"

\* C18 as claimed: when update_history_limit(L) and
\* update_recording_retention_period(P), P one of the five tokens, are the
\* commands invoked and both have returned, the stored settings hold L and the
\* policy of P, and the last run of cleanup_old_entries was made against both.
C18_NoLostSettingsUpdate ==
    \A p, q \in Invocations :
        (/\ IsLimitCommand(p)
         /\ IsRetentionCommand(q) /\ h_cmd[q].period \in ValidTokens
         /\ OnlyTheseReturned(p, q)) =>
            /\ settings.history_limit = h_cmd[p].limit
            /\ settings.recording_retention_period = PolicyOf[h_cmd[q].period]
            /\ LastCleanup.history_limit = h_cmd[p].limit
            /\ LastCleanup.recording_retention_period = PolicyOf[h_cmd[q].period]

\* the stored settings hold the value that invocation p set
HoldsValueOf(p, stored) ==
    IF IsLimitCommand(p)
    THEN stored.history_limit = h_cmd[p].limit
    ELSE stored.recording_retention_period = PolicyOf[h_cmd[p].period]

\* invocation p wrote the settings and its run of cleanup_old_entries failed
CleanupFailedAfterWrite(p) ==
    /\ CallsOf(p, "write_settings") # {}
    /\ \E c \in CallsOf(p, "cleanup_old_entries") : ~calls[c].ok

\* no other invocation has written the settings after the write of p
LastWriter(p) ==
    \A w \in CallsOf(p, "write_settings"), d \in DOMAIN calls :
        (calls[d].fn = "write_settings" /\ calls[d].by # p) => d < w

\* C19: a command whose write_settings succeeded and whose
\* cleanup_old_entries then failed has returned the error; its one write, with
\* the new value, came before the failing run and it writes nothing after it,
\* so the stored settings hold the new value for as long as no other command
\* writes them; and the failing step itself leaves the stored settings as they
\* were.
C19_FailedCleanupState ==
    \A p \in Invocations :
        CleanupFailedAfterWrite(p) =>
            /\ HasReturned(p)
            /\ h_result[p] = Some(Err("cleanup_old_entries failed"))
            /\ Cardinality(CallsOf(p, "write_settings")) = 1
            /\ \A w \in CallsOf(p, "write_settings"), c \in CallsOf(p, "cleanup_old_entries") :
                  w < c /\ SawWrittenValue(p, w)
            /\ LastWriter(p) => HoldsValueOf(p, settings)

C19_FailedCleanupStep ==
    \A p \in Invocations :
        (h_pc[p] = "cleanup" /\ h_pc'[p] = "done" /\ ~h_result'[p][1].ok) =>
            /\ settings' = settings
            /\ Len(calls') = Len(calls) + 1
            /\ calls'[Len(calls')].fn = "cleanup_old_entries"

---------------------------------------------------------------------------
(* Properties of the history store *)

SettingsCommandNames == {"update_history_limit", "update_recording_retention_period"}

\* the last command was a settings command whose cleanup pass ran
CleanupRan == s_cmd.name \in SettingsCommandNames /\ s_cmd.pass

IdsOf(es) == {es[i].id : i \in DOMAIN es}

EntryOf(es, id) == es[CHOOSE i \in DOMAIN es : es[i].id = id]

\* the entry is in the store as it was and its audio file is on disk
StillPresent(e, es, fs) ==
    /\ e.id \in IdsOf(es)
    /\ EntryOf(es, e.id).audio = e.audio
    /\ EntryOf(es, e.id).created_at = e.created_at
    /\ AudioOf(e) \subseteq fs

\* C11: no step of the store with the settings commands, and so no cleanup pass
\* whatever the limit, the retention period and the age and position of the
\* entries, removes an entry that is saved or its audio file: every passed
\* entry that was saved before the step is in the store after it, with its
\* audio file on disk.
C11_SavedStep ==
    \A i \in DOMAIN entries :
        entries[i].saved => StillPresent(entries[i], entries', files')

C11_SavedExemption == [][C11_SavedStep]_vars

\* a saved entry older than every window, and not among the newest `limit`
\* entries, is in the store with its file after a cleanup pass that evicted a
\* newer entry
C11_Witness ==
    /\ CleanupRan
    /\ s_cmd.evicted # {}
    /\ settings.recording_retention_period = "Months3"
    /\ settings.history_limit = 0
    /\ \E i \in DOMAIN entries :
          /\ entries[i].saved
          /\ now - entries[i].created_at > 90
          /\ AudioOf(entries[i]) # {}
          /\ AudioOf(entries[i]) \subseteq files
          /\ \E id \in s_cmd.evicted : id > entries[i].id

\* a step in which a settings command ran its cleanup pass
PassStep ==
    \/ \E limit \in Limits : update_history_limit(limit)
    \/ \E period \in ValidTokens : update_recording_retention_period(period)

\* the ids of the entries a step removed
EvictedByStep == IdsOf(entries) \ IdsOf(entries')

Unsaved(es) == {es[i].id : i \in {j \in DOMAIN es : ~es[j].saved}}

\* the unsaved entries that are not among the L newest unsaved ones
BeyondNewest(es, L) ==
    {id \in Unsaved(es) : Cardinality({other \in Unsaved(es) : other > id}) >= L}

\* the unsaved entries older than `days` days
OlderThan(es, today, days) ==
    {id \in Unsaved(es) : today - EntryOf(es, id).created_at > days}

\* the unsaved entries beyond the window of the stored retention period
BeyondWindow(es, period, today) ==
    CASE period = "Days3"   -> OlderThan(es, today, 3)
      [] period = "Weeks2"  -> OlderThan(es, today, 14)
      [] period = "Months3" -> OlderThan(es, today, 90)
      [] OTHER -> {}

FilesOf(es, ids) == UNION {AudioOf(EntryOf(es, id)) : id \in ids}

\* every entry of es but those in ids is in the later store, unchanged and in
\* the same order
KeptAsWere(es, later, ids) ==
    /\ IdsOf(later) = IdsOf(es) \ ids
    /\ \A id \in IdsOf(later) : EntryOf(later, id) = EntryOf(es, id)
    /\ \A i, j \in DOMAIN later : i < j => later[i].id < later[j].id

\* C12 as stated: a cleanup pass that succeeds evicts exactly the unsaved
\* entries beyond the L newest, whatever the retention period, and removes
\* their audio files.
C12_EvictsExactlyBeyondLimitStep ==
    (PassStep /\ s_result'[1].ok) =>
        /\ EvictedByStep = BeyondNewest(entries, settings'.history_limit)
        /\ files' = files \ FilesOf(entries, EvictedByStep)

C12_CountLimitStep ==
    PassStep =>
        LET L == settings'.history_limit
            period == settings'.recording_retention_period
            beyond == BeyondNewest(entries, L)
            old == BeyondWindow(entries, period, now)
        IN  /\ EvictedByStep \subseteq beyond \cup old
            /\ s_cmd'.evicted = EvictedByStep
            /\ KeptAsWere(entries, entries', EvictedByStep)
            /\ files' = files \ FilesOf(entries, EvictedByStep)
            /\ s_result'[1].ok =>
                  /\ EvictedByStep = beyond \cup old
                  /\ period \in {"Never", "PreserveLimit"} => EvictedByStep = beyond
            /\ ~s_result'[1].ok =>
                  /\ (beyond \cup old) \ EvictedByStep # {}
                  /\ FilesOf(entries, (beyond \cup old) \ EvictedByStep) \subseteq locked

C13_SecondPassStep ==
    (PassStep /\ s_cmd.pass /\ settings' = settings) =>
        /\ s_cmd'.repeat
        /\ s_cmd'.evicted = {}
        /\ entries' = entries
        /\ files' = files
        /\ s_result' = s_result

C13_RetentionIdempotence == [][C13_SecondPassStep]_vars

\* a second pass has run right after one that evicted an entry and left
\* another, and both entries are gone from nowhere else: the store holds what
\* the first pass left
C13_Witness ==
    /\ CleanupRan /\ s_cmd.repeat
    /\ settings.history_limit = 1
    /\ next_id = 3
    /\ IdsOf(entries) = {2} /\ ~entries[1].saved
    /\ files = {AudioFileName(2)}

\* every audio file on disk is that of an entry and every entry's audio file is
\* on disk
NoHalfDeleted == files = FilesOf(entries, IdsOf(entries))

StorageFailure(id) == Err("Failed to delete audio file of entries: " \o IntToStr(id))

NotFoundFailure(id) == Err("History entry not found: " \o IntToStr(id))

\* C14: delete_history_entry on an entry of the store either returns Ok with
\* the record and its audio file both removed and every other entry and file
\* kept, or, when the file cannot be deleted, returns the storage failure
\* naming the entry with the record and the file both left as they were; and
\* in every state the files on disk are exactly those of the entries.
C14_DeleteStep ==
    \A id \in IdsOf(entries) :
        delete_history_entry(id) =>
            \/ /\ s_result' = Some(Ok("()"))
               /\ AudioOf(EntryOf(entries, id)) \cap locked = {}
               /\ KeptAsWere(entries, entries', {id})
               /\ files' = files \ AudioOf(EntryOf(entries, id))
            \/ /\ s_result' = Some(StorageFailure(id))
               /\ AudioOf(EntryOf(entries, id)) \cap locked # {}
               /\ entries' = entries
               /\ files' = files

C14_DeletionConsistency == [](NoHalfDeleted) /\ [][C14_DeleteStep]_vars

\* the deletion of entry 1 has failed on its audio file: the command returned
\* the storage failure, and the record and the file are both there
C14_Witness ==
    /\ s_cmd.name = "delete_history_entry" /\ s_cmd.id = 1
    /\ s_result = Some(StorageFailure(1))
    /\ 1 \in IdsOf(entries)
    /\ AudioFileName(1) \in files \cap locked
    /\ Len(entries) = 2

\* C15: toggle_history_entry_saved, update_history_entry_text and
\* delete_history_entry called with an id that no entry of the store has (one
\* never given out, or that of a deleted entry) return the error that names
\* the missing entry, never Ok, and leave every entry and every audio file as
\* they were.
C15_UnknownIdStep ==
    \A id \in CallerIds \ IdsOf(entries) :
        (\/ toggle_history_entry_saved(id)
         \/ update_history_entry_text(id, "edited")
         \/ delete_history_entry(id)) =>
            /\ s_result' = Some(NotFoundFailure(id))
            /\ entries' = entries
            /\ files' = files
            /\ locked' = locked

====
